---- MODULE Spec2Model ----
(***************************************************************************)
(* Educate App frontend (src/app.js): the Vue application's data, its cart *)
(* handlers and its two asynchronous workflows (loadLessons, checkout).    *)
(* JavaScript runs one handler at a time; an async function gives up       *)
(* control exactly at its awaits, so every action below is one synchronous *)
(* run of code between two awaits.                                         *)
(***************************************************************************)
EXTENDS Integers, Sequences, FiniteSets, TLC

\* ------------------------------------------------------------------ bounds
MaxCart == 2            \* cart length the model explores
MaxSpaces == 2          \* largest availability the backend reports

\* ------------------------------------------------------------- value sets
Letters ==
  {"A","B","C","D","E","F","G","H","I","J","K","L","M","N","O","P","Q","R","S",
   "T","U","V","W","X","Y","Z","a","b","c","d","e","f","g","h","i","j","k","l",
   "m","n","o","p","q","r","s","t","u","v","w","x","y","z"}
Digits == {"0","1","2","3","4","5","6","7","8","9"}

\* Texts typed into the form, as sequences of characters.
JaneDoe == <<"J","a","n","e"," ","D","o","e">>
Phone5551234 == <<"5","5","5","1","2","3","4">>

\* What the two form fields (v-model) are edited to: a valid form, one with a
\* digit in the name, one with a letter in the phone, and the cleared form.
Forms ==
  { [name |-> <<>>, phone |-> <<>>],
    [name |-> JaneDoe, phone |-> Phone5551234],
    [name |-> <<"J","4">>, phone |-> Phone5551234],
    [name |-> JaneDoe, phone |-> <<"5","x">>] }

Subjects == {"Math", "Art"}
Location == "Hall A"
Price(subject) == IF subject = "Math" THEN 20 ELSE 10

Lesson(s, n) == [subject |-> s, location |-> Location, price |-> Price(s), spaces |-> n]

\* Lists GET /lessons can answer with: empty, one lesson, two lessons with
\* different keys, two lessons sharing (subject, location).
Catalogs ==
  { <<>> }
  \cup { <<Lesson("Math", n)>> : n \in 0..MaxSpaces }
  \cup { <<Lesson("Math", 1), Lesson("Art", 1)>> }
  \cup { <<Lesson("Math", 0), Lesson("Math", n)>> : n \in 1..MaxSpaces }

NoItem == [subject |-> "", location |-> "", price |-> 0]
CartItems == { [subject |-> s, location |-> Location, price |-> Price(s)] : s \in Subjects }

EmptyCustomer == [name |-> <<>>, phone |-> <<>>]
NoOrder == [name |-> <<>>, phone |-> <<>>, items |-> <<>>, total |-> 0]

\* The checkout() calls that can be suspended at the same time. The page
\* submits one order at a time; Init takes the records of the calls from here
\* and every action works for whatever records co has.
Procs == {1}

VARIABLES
  searchQuery,    \* this.searchQuery, a sequence of characters
  sortAttribute,  \* this.sortAttribute
  sortDir,        \* this.sortDir
  lessons,        \* this.lessons
  cart,           \* this.cart
  customer,       \* this.customer
  orderMessage,   \* this.orderMessage
  load,           \* the loadLessons() calls: [0] made by mounted(), [p] by checkout call p;
                  \* "fetch" / "json" name the await the call is suspended at
  co,             \* the checkout() calls: one record per call that is alive
  track,          \* the <<handler, outcome>> pairs whose runs are recorded in ev and pre
  ev,             \* the run recorded last, if nothing ran since: handler, arguments, outcome
  pre,            \* lessons and cart before the addToCart recorded last; back when
                  \* the handler that ran directly after it was removeOne of the
                  \* entry it pushed
  loaded          \* the list this.lessons was last assigned by loadLessons(), kept
                  \* when track asks for it

vars == <<lessons, cart, customer, orderMessage, load, co, track, ev, pre,
          searchQuery, sortAttribute, sortDir, loaded>>

NoPre == [lessons |-> <<>>, cart |-> <<>>, set |-> FALSE, back |-> FALSE]

\* ev after a handler ran: its name, the checkout or loadLessons call it belongs
\* to, its arguments, its outcome, the alert() it raised ("none", "load" for
\* "Could not load lessons.", "order" for "There was a problem submitting your
\* order.") and the list it received or the request body it sent.
NoEv == [op |-> "", proc |-> 0, index |-> 0, item |-> NoItem, res |-> "", alert |-> "none",
         data |-> <<>>]
EvData(op, proc, index, item, res, alert, data) ==
  IF <<op, res>> \in track
  THEN [op |-> op, proc |-> proc, index |-> index, item |-> item, res |-> res,
        alert |-> alert, data |-> data]
  ELSE NoEv
Ev(op, proc, index, item, res, alert) == EvData(op, proc, index, item, res, alert, <<>>)

\* A checkout() call: pc names the await it is suspended at ("post", "put",
\* "reload"), "idle" a record no call is using; k, live and frozen are the
\* state of its for-of loop; order is the body it POSTed and puts the cart
\* entries it has sent a PUT for.
IdleCo == [pc |-> "idle", k |-> 0, live |-> FALSE, frozen |-> <<>>,
           order |-> NoOrder, puts |-> <<>>]

\* ---------------------------------------------------------------- helpers
\* The pattern without its anchors, /[A-Za-z ]+/: one letter or space is enough.
NameOKUnanchored(s) == \E i \in 1..Len(s) : s[i] \in Letters \cup {" "}

\* /^[A-Za-z ]+$/.test(name)
NameOK(s) == Len(s) > 0 /\ \A i \in 1..Len(s) : s[i] \in Letters \cup {" "}

\* /^[0-9]+$/.test(phone)
PhoneOK(s) == Len(s) > 0 /\ \A i \in 1..Len(s) : s[i] \in Digits

IsCheckoutValid == NameOK(customer.name) /\ PhoneOK(customer.phone) /\ Len(cart) > 0

\* A total taken from the catalog as it is now: the price of the first lesson
\* with the entry's (subject, location), nothing for an entry without one.
RECURSIVE SumCatalogPrices(_)
SumCatalogPrices(c) ==
  IF c = <<>> THEN 0
  ELSE LET hits == { i \in 1..Len(lessons) : /\ lessons[i].subject = c[1].subject
                                              /\ lessons[i].location = c[1].location }
       IN (IF hits = {} THEN 0
           ELSE lessons[CHOOSE i \in hits : \A j \in hits : i <= j].price)
          + SumCatalogPrices(Tail(c))

RECURSIVE SumPrices(_)
SumPrices(c) == IF c = <<>> THEN 0 ELSE c[1].price + SumPrices(Tail(c))

\* this.cart.reduce((sum, item) => sum + (item.price || 0), 0)
CartTotal == SumPrices(cart)

\* this.cart.length
CartCount == Len(cart)

\* this.lessons.find(l => l.subject === item.subject && l.location === item.location):
\* the position of the first match, 0 when there is none.
FindLesson(ls, item) ==
  LET hits == { i \in 1..Len(ls) : ls[i].subject = item.subject /\ ls[i].location = item.location }
  IN IF hits = {} THEN 0 ELSE CHOOSE i \in hits : \A j \in hits : i <= j

\* A push that leaves the price out.
SnapshotNoPrice(lesson) ==
  [subject |-> lesson.subject, location |-> lesson.location, price |-> 0]

\* The cart entry addToCart pushes.
Snapshot(lesson) ==
  [subject |-> lesson.subject, location |-> lesson.location, price |-> lesson.price]

\* shift() in place of splice(index, 1): always the first entry.
SpliceFirst(s, index) == Tail(s)

\* splice(index, 1), index counted from 0
Splice(s, index) == [n \in 1..(Len(s) - 1) |-> IF n <= index THEN s[n] ELSE s[n + 1]]

\* data() followed by mounted(): nothing loaded yet, the first GET in flight;
\* calls are the records for the checkout() calls that can be suspended at once.
StartWith(calls) ==
  /\ lessons = <<>>
  /\ cart = <<>>
  /\ customer = EmptyCustomer
  /\ orderMessage = ""
  /\ load = [w \in {0} \cup calls |-> IF w = 0 THEN "fetch" ELSE "none"]
  /\ co = [p \in calls |-> IdleCo]
  /\ ev = NoEv
  /\ pre = NoPre
  /\ searchQuery = <<>>
  /\ sortAttribute = "subject"
  /\ sortDir = "asc"
  /\ loaded = <<>>

Start == StartWith(Procs)

Init == Start /\ track = {}

\* ------------------------------------------------------------ form input
\* The user edits customer.name and customer.phone.
Input(c) ==
  /\ customer' = c
  /\ ev' = Ev("input", 0, 0, NoItem, "", "none")
  /\ pre' = NoPre
  /\ UNCHANGED <<lessons, cart, orderMessage, load, co, track, searchQuery, sortAttribute, sortDir, loaded>>

\* ------------------------------------------------------- search and sort
\* The characters of the texts of the model, in the order of their code units.
Alphabet ==
  <<" ","0","1","2","3","4","5","6","7","8","9",
    "A","B","C","D","E","F","G","H","I","J","K","L","M","N","O","P","Q","R","S",
    "T","U","V","W","X","Y","Z","a","b","c","d","e","f","g","h","i","j","k","l",
    "m","n","o","p","q","r","s","t","u","v","w","x","y","z">>
Code(ch) == CHOOSE n \in 1..Len(Alphabet) : Alphabet[n] = ch

\* The characters of a subject or location.
Spelling ==
  ("" :> <<>>) @@
  ("Math" :> <<"M","a","t","h">>) @@
  ("math" :> <<"m","a","t","h">>) @@
  ("Art" :> <<"A","r","t">>) @@
  ("Zen" :> <<"Z","e","n">>) @@
  ("Hall A" :> <<"H","a","l","l"," ","A">>) @@
  ("Lab 2" :> <<"L","a","b"," ","2">>)

\* String(n) of a whole number n >= 0.
RECURSIVE NumText(_)
NumText(n) ==
  IF n < 10 THEN <<Alphabet[n + 2]>> ELSE Append(NumText(n \div 10), Alphabet[(n % 10) + 2])

\* toLowerCase() of one character and of a text.
LowerChar(ch) ==
  IF Code(ch) \in 12..37 THEN Alphabet[Code(ch) + 26] ELSE ch
ToLowerCase(t) == [n \in 1..Len(t) |-> LowerChar(t[n])]

\* text.includes(term)
Includes(text, term) ==
  \E o \in 0..(Len(text) - Len(term)) : SubSeq(text, o + 1, o + Len(term)) = term

\* String(v || "").toLowerCase() of a text field: the empty text is falsy already.
FieldText(v) == ToLowerCase(Spelling[v])

\* String(v || "").toLowerCase() of a number field: 0 is falsy and gives "".
NumberText(v) == IF v = 0 THEN <<>> ELSE NumText(v)

\* The test of searchedLessons for one lesson and the lowercased term.
Matches(lesson, term) ==
  \/ term = <<>>
  \/ Includes(FieldText(lesson.subject), term)
  \/ Includes(FieldText(lesson.location), term)
  \/ Includes(NumberText(lesson.price), term)
  \/ Includes(NumberText(lesson.spaces), term)

\* searchedLessons as a function of the catalog and the query.
Searched(ls, q) == SelectSeq(ls, LAMBDA lesson : Matches(lesson, ToLowerCase(q)))
searchedLessons == Searched(lessons, searchQuery)

\* getSortValue(lesson) under attribute attr.
SortValue(lesson, attr) ==
  CASE attr = "subject" -> FieldText(lesson.subject)
    [] attr = "location" -> FieldText(lesson.location)
    [] attr = "price" -> lesson.price
    [] attr = "spaces" -> lesson.spaces
    [] OTHER -> 0
getSortValue(lesson) == SortValue(lesson, sortAttribute)

\* a < b for two texts: code units compared from the left, a prefix is smaller.
RECURSIVE TextLess(_, _)
TextLess(a, b) ==
  IF b = <<>> THEN FALSE
  ELSE IF a = <<>> THEN TRUE
  ELSE IF a[1] # b[1] THEN Code(a[1]) < Code(b[1])
  ELSE TextLess(Tail(a), Tail(b))

\* aVal > bVal, on two texts or on two numbers.
Greater(aVal, bVal, attr) ==
  IF attr \in {"subject", "location"} THEN TextLess(bVal, aVal) ELSE aVal > bVal

\* A comparator that answers with the signs swapped, in place of reverse().
CompareSwapped(a, b, attr) ==
  LET aVal == SortValue(a, attr)
      bVal == SortValue(b, attr)
  IN IF Greater(aVal, bVal, attr) THEN -1
     ELSE IF Greater(bVal, aVal, attr) THEN 1
     ELSE 0

\* The comparator of the sort: 1, -1 or 0.
Compare(a, b, attr) ==
  LET aVal == SortValue(a, attr)
      bVal == SortValue(b, attr)
  IN IF Greater(aVal, bVal, attr) THEN 1
     ELSE IF Greater(bVal, aVal, attr) THEN -1
     ELSE 0

\* x put into the sorted list s behind every entry the comparator does not put
\* after it: Array.prototype.sort is stable.
RECURSIVE InsertSorted(_, _, _)
InsertSorted(s, x, attr) ==
  IF s = <<>> THEN <<x>>
  ELSE IF Compare(s[Len(s)], x, attr) <= 0 THEN Append(s, x)
  ELSE Append(InsertSorted(SubSeq(s, 1, Len(s) - 1), x, attr), s[Len(s)])

\* list.sort(comparator)
RECURSIVE SortAsc(_, _)
SortAsc(list, attr) ==
  IF list = <<>> THEN <<>>
  ELSE InsertSorted(SortAsc(SubSeq(list, 1, Len(list) - 1), attr), list[Len(list)], attr)

\* list.reverse()
Reverse(list) == [n \in 1..Len(list) |-> list[Len(list) + 1 - n]]

\* sortedLessons as a function of the searched list, the attribute and the direction.
Sorted(list, attr, dir) ==
  IF dir = "desc" THEN Reverse(SortAsc(list, attr)) ELSE SortAsc(list, attr)
sortedLessons == Sorted(searchedLessons, sortAttribute, sortDir)

displayedLessons == sortedLessons

\* What the search box is typed to.
Queries == { <<>>, <<"0">>, <<"1">>, <<"M","A">>, <<"l","l"," ","a">>, <<"z","z">> }
SortAttributes == {"subject", "location", "price", "spaces"}
SortDirs == {"asc", "desc"}

\* The search box and the two sort controls (v-model).
SetSearchQuery(q) ==
  /\ searchQuery' = q
  /\ ev' = Ev("setSearchQuery", 0, 0, NoItem, "", "none")
  /\ pre' = NoPre
  /\ UNCHANGED <<lessons, cart, customer, orderMessage, load, co, track, sortAttribute,
                 sortDir, loaded>>

SetSortAttribute(attr) ==
  /\ sortAttribute' = attr
  /\ ev' = Ev("setSortAttribute", 0, 0, NoItem, "", "none")
  /\ pre' = NoPre
  /\ UNCHANGED <<lessons, cart, customer, orderMessage, load, co, track, searchQuery,
                 sortDir, loaded>>

\* A control that turns the catalog itself around.
SetSortDirInPlace(dir) ==
  /\ sortDir' = dir
  /\ lessons' = IF dir # sortDir THEN Reverse(lessons) ELSE lessons
  /\ ev' = Ev("setSortDir", 0, 0, NoItem, "", "none")
  /\ pre' = NoPre
  /\ UNCHANGED <<cart, customer, orderMessage, load, co, track, searchQuery,
                 sortAttribute, loaded>>

SetSortDir(dir) ==
  /\ sortDir' = dir
  /\ ev' = Ev("setSortDir", 0, 0, NoItem, "", "none")
  /\ pre' = NoPre
  /\ UNCHANGED <<lessons, cart, customer, orderMessage, load, co, track, searchQuery,
                 sortAttribute, loaded>>

\* ------------------------------------------------------------------ cart
\* The test with < in place of <=.
SoldOutBelowZero(lesson) == lesson.spaces < 0

\* lesson.spaces <= 0
SoldOut(lesson) == lesson.spaces <= 0

\* addToCart(lesson); i is the lesson's position in this.lessons, 0 an absent lesson.
AddToCart(i) ==
  IF i = 0 \/ SoldOut(lessons[i])
  THEN /\ ev' = Ev("addToCart", 0, i, NoItem, "noop", "none")
       /\ pre' = NoPre
       /\ UNCHANGED <<lessons, cart, customer, orderMessage, load, co, track, searchQuery, sortAttribute, sortDir, loaded>>
  ELSE /\ Len(cart) < MaxCart
       /\ lessons' = [lessons EXCEPT ![i].spaces = @ - 1]
       /\ cart' = Append(cart, Snapshot(lessons[i]))
       /\ ev' = Ev("addToCart", 0, i, NoItem, "added", "none")
       /\ pre' = IF <<"addToCart", "added">> \in track
                 THEN [lessons |-> lessons, cart |-> cart, set |-> TRUE, back |-> FALSE]
                 ELSE NoPre
       /\ UNCHANGED <<customer, orderMessage, load, co, track, searchQuery, sortAttribute, sortDir, loaded>>

\* An item argument that is not an object (undefined).
Absent == [subject |-> "undefined", location |-> "undefined", price |-> 0]

\* removeOne(index, item); index counts from 0 as in the source.
RemoveOne(index, item) ==
  IF index < 0 \/ index >= Len(cart)
  THEN /\ ev' = Ev("removeOne", 0, index, item, "noop", "none")
       /\ pre' = NoPre
       /\ UNCHANGED <<lessons, cart, customer, orderMessage, load, co, track, searchQuery, sortAttribute, sortDir, loaded>>
  ELSE /\ cart' = Splice(cart, index)
       /\ IF item = Absent
          THEN \* find() calls its predicate only when there is a lesson to test;
               \* item.subject then throws a TypeError out of the handler.
               /\ lessons' = lessons
               /\ ev' = Ev("removeOne", 0, index, item,
                           IF lessons = <<>> THEN "removed" ELSE "threw", "none")
          ELSE LET j == FindLesson(lessons, item) IN
               /\ lessons' = IF j = 0 THEN lessons
                             ELSE [lessons EXCEPT ![j].spaces = @ + 1]
               /\ ev' = Ev("removeOne", 0, index, item, "removed", "none")
       /\ pre' = IF pre.set /\ ~pre.back /\ index = Len(cart) - 1 /\ item = cart[Len(cart)]
                 THEN [pre EXCEPT !.back = TRUE]
                 ELSE NoPre
       /\ UNCHANGED <<customer, orderMessage, load, co, track, searchQuery, sortAttribute, sortDir, loaded>>

\* ----------------------------------------------------------- loadLessons
\* Outcomes of `await fetch(...)`: the promise rejects ("error"), or resolves
\* with res.ok false ("status") or true ("ok").
FetchOutcomes == {"ok", "status", "error"}

\* What the end of a loadLessons() call resumes: caller 0 is mounted(), which
\* does not wait; caller p > 0 is checkout call p at `await this.loadLessons()`,
\* which then runs off the end of its try block.
LoadDone(w) ==
  IF w = 0 THEN co' = co ELSE co' = [co EXCEPT ![w] = IdleCo]

\* loadLessons() without `if (!res.ok) throw`: any response is read.
LoadFetchReturnNoOkTest(w, outcome) ==
  /\ load[w] = "fetch"
  /\ IF outcome # "error"
     THEN /\ load' = [load EXCEPT ![w] = "json"]
          /\ ev' = Ev("loadFetchReturn", w, 0, NoItem, outcome, "none")
          /\ co' = co
     ELSE /\ load' = [load EXCEPT ![w] = "none"]
          /\ ev' = Ev("loadFetchReturn", w, 0, NoItem, outcome, "load")
          /\ LoadDone(w)
  /\ pre' = NoPre
  /\ UNCHANGED <<lessons, cart, customer, orderMessage, track, searchQuery, sortAttribute, sortDir, loaded>>

\* loadLessons() resumed after `await fetch(apiBase + "/lessons")`.
LoadFetchReturn(w, outcome) ==
  /\ load[w] = "fetch"
  /\ IF outcome = "ok"
     THEN /\ load' = [load EXCEPT ![w] = "json"]
          /\ ev' = Ev("loadFetchReturn", w, 0, NoItem, outcome, "none")
          /\ co' = co
     ELSE /\ load' = [load EXCEPT ![w] = "none"]
          /\ ev' = Ev("loadFetchReturn", w, 0, NoItem, outcome, "load")
          /\ LoadDone(w)
  /\ pre' = NoPre
  /\ UNCHANGED <<lessons, cart, customer, orderMessage, track, searchQuery, sortAttribute, sortDir, loaded>>

\* ... resumed after `await res.json()` with the parsed list: this.lessons = data.
LoadJsonReturn(w, data) ==
  /\ load[w] = "json"
  /\ load' = [load EXCEPT ![w] = "none"]
  /\ lessons' = data
  /\ ev' = EvData("loadJsonReturn", w, 0, NoItem, "ok", "none", data)
  /\ loaded' = IF <<"loadJsonReturn", "kept">> \in track THEN data ELSE loaded
  /\ LoadDone(w)
  /\ pre' = NoPre
  /\ UNCHANGED <<cart, customer, orderMessage, track, searchQuery, sortAttribute, sortDir>>

\* loadLessons() without its try/catch: the rejection reaches the caller, and
\* a checkout call that is waiting handles it in its own catch block.
LoadJsonFailUncaught(w) ==
  /\ load[w] = "json"
  /\ load' = [load EXCEPT ![w] = "none"]
  /\ ev' = Ev("loadJsonReturn", w, 0, NoItem, "error", IF w = 0 THEN "none" ELSE "order")
  /\ LoadDone(w)
  /\ pre' = NoPre
  /\ UNCHANGED <<lessons, cart, customer, orderMessage, track, searchQuery, sortAttribute, sortDir, loaded>>

\* ... `await res.json()` rejects (the body is not JSON): the catch block.
LoadJsonFail(w) ==
  /\ load[w] = "json"
  /\ load' = [load EXCEPT ![w] = "none"]
  /\ ev' = Ev("loadJsonReturn", w, 0, NoItem, "error", "load")
  /\ LoadDone(w)
  /\ pre' = NoPre
  /\ UNCHANGED <<lessons, cart, customer, orderMessage, track, searchQuery, sortAttribute, sortDir, loaded>>

\* -------------------------------------------------------------- checkout
\* The array the for-of loop of call p walks: this.cart as it was when the loop
\* started. It is the live cart until some call assigns this.cart = [].
IterArr(p) == IF co[p].live THEN cart ELSE co[p].frozen

\* The array iterator has consumed k entries: the next entry with a lesson in
\* the catalog (entries without one are passed by `continue`), 0 at the end.
NextMatch(arr, k) ==
  LET hits == { j \in (k + 1)..Len(arr) : FindLesson(lessons, arr[j]) # 0 }
  IN IF hits = {} THEN 0 ELSE CHOOSE j \in hits : \A i \in hits : j <= i

\* Body of the PUT for a cart entry and its lesson.
PutBody(item, lesson) ==
  [subject |-> item.subject, location |-> item.location, spaces |-> lesson.spaces]

\* The call a new checkout() runs as: the first record that is not in use.
FreeProc == { p \in DOMAIN co : co[p].pc = "idle" }
NewProc == CHOOSE p \in FreeProc : \A q \in FreeProc : p <= q

\* checkout() with a guard that returns while another call is suspended.
CheckoutGuarded ==
  IF ~IsCheckoutValid \/ \E p \in DOMAIN co : co[p].pc # "idle"
  THEN /\ ev' = Ev("checkout", 0, 0, NoItem, "blocked", "none")
       /\ pre' = NoPre
       /\ UNCHANGED <<lessons, cart, customer, orderMessage, load, co, track, searchQuery,
                      sortAttribute, sortDir, loaded>>
  ELSE /\ co' = [co EXCEPT ![NewProc] =
                   [IdleCo EXCEPT !.pc = "post",
                                  !.order = [name |-> customer.name,
                                             phone |-> customer.phone,
                                             items |-> cart,
                                             total |-> CartTotal]]]
       /\ ev' = Ev("checkout", NewProc, 0, NoItem, "posted", "none")
       /\ pre' = NoPre
       /\ UNCHANGED <<lessons, cart, customer, orderMessage, load, track, searchQuery,
                      sortAttribute, sortDir, loaded>>

\* checkout() up to its first await: the validity test, the order, the POST.
Checkout ==
  IF ~IsCheckoutValid
  THEN /\ ev' = Ev("checkout", 0, 0, NoItem, "invalid", "none")
       /\ pre' = NoPre
       /\ UNCHANGED <<lessons, cart, customer, orderMessage, load, co, track, searchQuery, sortAttribute, sortDir, loaded>>
  ELSE /\ FreeProc # {}
       /\ co' = [co EXCEPT ![NewProc] =
                   [IdleCo EXCEPT !.pc = "post",
                                  !.order = [name |-> customer.name,
                                             phone |-> customer.phone,
                                             items |-> cart,
                                             total |-> CartTotal]]]
       /\ ev' = Ev("checkout", NewProc, 0, NoItem, "posted", "none")
       /\ pre' = NoPre
       /\ UNCHANGED <<lessons, cart, customer, orderMessage, load, track, searchQuery, sortAttribute, sortDir, loaded>>

\* The catch block of checkout().
CheckoutCatch(p, op, outcome) ==
  /\ co' = [co EXCEPT ![p] = IdleCo]
  /\ ev' = Ev(op, p, 0, NoItem, outcome, "order")
  /\ UNCHANGED <<lessons, cart, customer, orderMessage, load, track, searchQuery, sortAttribute, sortDir, loaded>>

\* The loop with the reload started along with each PUT instead of after the last.
LoopFromReloadEarly(p, arr, k, op, outcome) ==
  LET j == NextMatch(arr, k) IN
  IF j # 0
  THEN /\ co' = [co EXCEPT ![p].pc = "put", ![p].k = j,
                           ![p].live = IF co[p].pc = "post" THEN TRUE ELSE @,
                           ![p].puts = Append(@, arr[j])]
       /\ load' = [load EXCEPT ![p] = "fetch"]
       /\ ev' = EvData(op, p, j, arr[j], outcome, "none", <<>>)
       /\ UNCHANGED <<lessons, cart, customer, orderMessage, track, searchQuery,
                      sortAttribute, sortDir, loaded>>
  ELSE /\ orderMessage' = "Order submitted!"
       /\ cart' = <<>>
       /\ customer' = EmptyCustomer
       /\ co' = [co EXCEPT ![p].pc = "reload", ![p].k = 0, ![p].live = FALSE]
       /\ load' = [load EXCEPT ![p] = "fetch"]
       /\ ev' = Ev(op, p, 0, NoItem, outcome, "none")
       /\ UNCHANGED <<lessons, track, searchQuery, sortAttribute, sortDir, loaded>>

\* The for-of loop of call p from the entry after position k of arr: either the
\* next PUT is sent, or the loop ends and step 3 runs up to `await this.loadLessons()`.
LoopFrom(p, arr, k, op, outcome) ==
  LET j == NextMatch(arr, k) IN
  IF j # 0
  THEN /\ co' = [co EXCEPT ![p].pc = "put", ![p].k = j,
                           ![p].live = IF co[p].pc = "post" THEN TRUE ELSE @,
                           ![p].puts = Append(@, arr[j])]
       /\ ev' = EvData(op, p, j, arr[j], outcome, "none",
                       <<PutBody(arr[j], lessons[FindLesson(lessons, arr[j])])>>)
       /\ UNCHANGED <<lessons, cart, customer, orderMessage, load, track, searchQuery, sortAttribute, sortDir, loaded>>
  ELSE /\ orderMessage' = "Order submitted!"
       /\ cart' = <<>>
       /\ customer' = EmptyCustomer
       /\ co' = [q \in DOMAIN co |->
                   IF q = p
                   THEN [co[q] EXCEPT !.pc = "reload", !.k = 0, !.live = FALSE, !.frozen = <<>>]
                   ELSE IF co[q].pc = "put" /\ co[q].live
                   THEN [co[q] EXCEPT !.live = FALSE, !.frozen = cart]
                   ELSE co[q]]
       /\ load' = [load EXCEPT ![p] = "fetch"]
       /\ ev' = Ev(op, p, 0, NoItem, outcome, "none")
       /\ UNCHANGED <<lessons, track, searchQuery, sortAttribute, sortDir, loaded>>

\* checkout() without `if (!res.ok) throw`: any response starts the loop.
PostReturnNoOkTest(p, outcome) ==
  /\ co[p].pc = "post"
  /\ IF outcome # "error"
     THEN LoopFrom(p, cart, 0, "postReturn", outcome)
     ELSE CheckoutCatch(p, "postReturn", outcome)
  /\ pre' = NoPre

\* checkout() sending the POST again when it failed.
PostReturnRetry(p, outcome) ==
  /\ co[p].pc = "post"
  /\ IF outcome = "ok"
     THEN LoopFrom(p, cart, 0, "postReturn", outcome)
     ELSE /\ ev' = Ev("postReturn", p, 0, NoItem, outcome, "none")
          /\ UNCHANGED <<lessons, cart, customer, orderMessage, load, co, track, searchQuery,
                         sortAttribute, sortDir, loaded>>
  /\ pre' = NoPre

\* checkout() resumed after `await fetch(apiBase + "/order", ...)`.
PostReturn(p, outcome) ==
  /\ co[p].pc = "post"
  /\ IF outcome = "ok"
     THEN LoopFrom(p, cart, 0, "postReturn", outcome)
     ELSE CheckoutCatch(p, "postReturn", outcome)
  /\ pre' = NoPre

\* checkout() resumed after the `await fetch(apiBase + "/lessons", {method: "PUT"...})`
\* of the loop; the response is not looked at.
PutReturn(p, outcome) ==
  /\ co[p].pc = "put"
  /\ IF outcome = "error"
     THEN CheckoutCatch(p, "putReturn", outcome)
     ELSE LoopFrom(p, IterArr(p), co[p].k, "putReturn", outcome)
  /\ pre' = NoPre

Loaders == {0} \cup DOMAIN co

Next ==
  \/ \E c \in Forms : Input(c)
  \/ \E i \in 0..Len(lessons) : AddToCart(i)
  \/ \E index \in {-1, Len(cart)} : RemoveOne(index, Absent)
  \/ \E index \in 0..(Len(cart) - 1), item \in CartItems \cup {Absent} : RemoveOne(index, item)
  \/ \E w \in Loaders, outcome \in FetchOutcomes : LoadFetchReturn(w, outcome)
  \/ \E w \in Loaders, data \in Catalogs : LoadJsonReturn(w, data)
  \/ \E w \in Loaders : LoadJsonFail(w)
  \/ Checkout
  \/ \E p \in DOMAIN co, outcome \in FetchOutcomes : PostReturn(p, outcome)
  \/ \E p \in DOMAIN co, outcome \in FetchOutcomes : PutReturn(p, outcome)

Spec == Init /\ [][Next]_vars

\* The same program with the runs of some handlers recorded in ev and pre.
InitAdd == Start /\ track = {<<"addToCart", "added">>}
SpecAdd == InitAdd /\ [][Next]_vars

InitRemove == Start /\ track = {<<"removeOne", "removed">>, <<"removeOne", "threw">>}
SpecRemove == InitRemove /\ [][Next]_vars

InitInvalid == Start /\ track = {<<"checkout", "invalid">>}
SpecInvalid == InitInvalid /\ [][Next]_vars

InitCheckout == Start /\ track = {"postReturn", "putReturn"} \X {"ok", "status", "error"}
SpecCheckout == InitCheckout /\ [][Next]_vars

InitLoad == Start /\ track = {"loadFetchReturn", "loadJsonReturn"} \X {"ok", "status", "error"}
SpecLoad == InitLoad /\ [][Next]_vars

\* ... with the list of the last load kept in loaded.
InitSeats == Start /\ track = {<<"loadJsonReturn", "kept">>}
SpecSeats == InitSeats /\ [][Next]_vars

\* ... with records for two checkout() calls: the submit button is not disabled
\* while a call is suspended. The user fills the form and the cart and submits
\* more than once; no seat is taken out of the cart.
TwoProcs == {1, 2}
InitTwo == StartWith(TwoProcs) /\ track = {<<"checkout", "blocked">>}
TwoCatalogs == { <<Lesson("Math", MaxSpaces)>> }
NextTwo ==
  \/ \E c \in Forms : Input(c)
  \/ \E i \in 0..Len(lessons) : AddToCart(i)
  \/ \E w \in Loaders, outcome \in FetchOutcomes : LoadFetchReturn(w, outcome)
  \/ \E w \in Loaders, data \in TwoCatalogs : LoadJsonReturn(w, data)
  \/ \E w \in Loaders : LoadJsonFail(w)
  \/ Checkout
  \/ \E p \in DOMAIN co, outcome \in FetchOutcomes : PostReturn(p, outcome)
  \/ \E p \in DOMAIN co, outcome \in FetchOutcomes : PutReturn(p, outcome)
SpecTwo == InitTwo /\ [][NextTwo]_vars

\* ... with every request answered in the end: the fetch of a suspended call
\* settles, by a response or by a rejection, and so does the reading of a body.
Responses ==
  /\ \A p \in Procs : WF_vars(\E outcome \in FetchOutcomes : PostReturn(p, outcome))
  /\ \A p \in Procs : WF_vars(\E outcome \in FetchOutcomes : PutReturn(p, outcome))
  /\ \A w \in {0} \cup Procs : WF_vars(\E outcome \in FetchOutcomes : LoadFetchReturn(w, outcome))
  /\ \A w \in {0} \cup Procs :
       WF_vars((\E data \in Catalogs : LoadJsonReturn(w, data)) \/ LoadJsonFail(w))
SpecLive == InitCheckout /\ [][Next]_vars /\ Responses

\* ------------------------------------------------------------ lessons page
\* Lists GET /lessons can answer with, chosen for the search and the sort:
\* prices 10, 30, 20 with subjects and locations that tie once lowercased, and
\* lessons with a price or with spaces of 0.
BrowseCatalogs ==
  { <<>>,
    << [subject |-> "Art", location |-> "Hall A", price |-> 10, spaces |-> 2],
       [subject |-> "Math", location |-> "Lab 2", price |-> 30, spaces |-> 1],
       [subject |-> "math", location |-> "Hall A", price |-> 20, spaces |-> 1] >>,
    << [subject |-> "Zen", location |-> "Lab 2", price |-> 0, spaces |-> 1],
       [subject |-> "Art", location |-> "Hall A", price |-> 15, spaces |-> 0] >> }

\* The lessons page: the first load, the search box, the sort controls and the
\* cart buttons, removeOne being handed the entry the button stands for.
NextBrowse ==
  \/ \E q \in Queries : SetSearchQuery(q)
  \/ \E attr \in SortAttributes : SetSortAttribute(attr)
  \/ \E dir \in SortDirs : SetSortDir(dir)
  \/ \E i \in 0..Len(lessons) : AddToCart(i)
  \/ \E index \in 0..(Len(cart) - 1) : RemoveOne(index, cart[index + 1])
  \/ \E outcome \in FetchOutcomes : LoadFetchReturn(0, outcome)
  \/ \E data \in BrowseCatalogs : LoadJsonReturn(0, data)
  \/ LoadJsonFail(0)

SpecBrowse == Init /\ [][NextBrowse]_vars

\* ================================================================ claims
\* No two lessons of ls share (subject, location).
UniqueKeys(ls) ==
  \A i, j \in 1..Len(ls) :
    (ls[i].subject = ls[j].subject /\ ls[i].location = ls[j].location) => i = j

\* The entries of c that have a lesson in the catalog, in order.
Matching(c) == SelectSeq(c, LAMBDA it : FindLesson(lessons, it) # 0)

\* s without its entry at position n (counted from 1).
Without(s, n) == SubSeq(s, 1, n - 1) \o SubSeq(s, n + 1, Len(s))

\* ---------------------------------------------------------------- C1
\* C1: addToCart(lesson) changes neither the lessons nor the cart when the lesson
\* is absent or has spaces <= 0; otherwise it takes exactly one space from that
\* lesson and appends one entry {subject, location, price} copied from it.
C1_AddToCart ==
  [][\A i \in 0..Len(lessons) :
       AddToCart(i) =>
         IF i = 0 \/ lessons[i].spaces <= 0
         THEN lessons' = lessons /\ cart' = cart
         ELSE /\ Len(lessons') = Len(lessons)
              /\ \A n \in 1..Len(lessons) :
                   lessons'[n] = IF n = i
                                 THEN [subject |-> lessons[i].subject,
                                       location |-> lessons[i].location,
                                       price |-> lessons[i].price,
                                       spaces |-> lessons[i].spaces - 1]
                                 ELSE lessons[n]
              /\ cart' = cart \o << [subject |-> lessons[i].subject,
                                     location |-> lessons[i].location,
                                     price |-> lessons[i].price] >>]_vars

\* Math / Hall A / 20 loaded with 2 spaces, after the second addToCart: no space
\* left, two entries in the cart, so that a third addToCart is the no-op case.
C1_Witness ==
  /\ ev.op = "addToCart" /\ ev.res = "added"
  /\ pre.set /\ pre.lessons = <<Lesson("Math", 1)>> /\ Len(pre.cart) = 1
  /\ lessons = <<Lesson("Math", 0)>>
  /\ cart = <<Snapshot(Lesson("Math", 2)), Snapshot(Lesson("Math", 2))>>
  /\ CartTotal = 40

\* ---------------------------------------------------------------- C2
\* C2: every lesson of the catalog has spaces >= 0, whatever addToCart, removeOne,
\* checkout and loadLessons steps have run.
C2_SpacesNonNegative == \A i \in 1..Len(lessons) : lessons[i].spaces >= 0

\* A sold-out lesson, its seats in the cart, after an earlier order was submitted.
C2_Witness ==
  /\ orderMessage = "Order submitted!"
  /\ \E i \in 1..Len(lessons) :
       /\ lessons[i].spaces = 0
       /\ \E n \in 1..Len(cart) : cart[n] = Snapshot(lessons[i])

\* ---------------------------------------------------------------- C3
\* C3: removeOne with an index outside the cart changes neither cart nor lessons;
\* otherwise it removes the entry at that index and gives one space back to the
\* first lesson with the (subject, location) of the entry that was removed, or to
\* no lesson when none has it.
C3_RemoveOne ==
  [][\A index \in (-1)..Len(cart), item \in CartItems \cup {Absent} :
       RemoveOne(index, item) =>
         IF index < 0 \/ index >= Len(cart)
         THEN lessons' = lessons /\ cart' = cart
         ELSE LET removed == cart[index + 1]
                  hits == { n \in 1..Len(lessons) :
                              /\ lessons[n].subject = removed.subject
                              /\ lessons[n].location = removed.location }
              IN /\ cart' = Without(cart, index + 1)
                 /\ Len(lessons') = Len(lessons)
                 /\ \A n \in 1..Len(lessons) :
                      lessons'[n] =
                        IF n \in hits /\ \A m \in hits : n <= m
                        THEN [lessons[n] EXCEPT !.spaces = lessons[n].spaces + 1]
                        ELSE lessons[n]]_vars

\* ---------------------------------------------------------------- C4
\* C4: with (subject, location) unique in the catalog, addToCart directly followed
\* by removeOne of the entry just pushed leaves the lessons and the cart as they
\* were before the addToCart.
C4_RoundTrip ==
  (pre.set /\ pre.back /\ UniqueKeys(pre.lessons))
    => (lessons = pre.lessons /\ cart = pre.cart)

\* The round trip made in a two-lesson catalog with a cart that was not empty.
C4_Witness ==
  /\ pre.set /\ pre.back /\ UniqueKeys(pre.lessons)
  /\ Len(pre.lessons) = 2 /\ Len(pre.cart) = 1
  /\ lessons = pre.lessons /\ cart = pre.cart

\* ---------------------------------------------------------------- C5
\* The form and cart for which the claim says checkout() does nothing.
C5_Invalid ==
  \/ cart = <<>>
  \/ customer.name = <<>>
  \/ \E n \in 1..Len(customer.name) : customer.name[n] \notin Letters \cup {" "}
  \/ customer.phone = <<>>
  \/ \E n \in 1..Len(customer.phone) : customer.phone[n] \notin Digits

\* C5: checkout() with an empty cart, a name that is not letters and spaces only or
\* a phone that is not digits only sends no request, starts no reload and leaves
\* cart, customer, lessons and orderMessage as they are.
C5_InvalidCheckoutNoOp ==
  [][(Checkout /\ C5_Invalid) =>
       UNCHANGED <<lessons, cart, customer, orderMessage, co, load>>]_vars

\* checkout() was called with seats in the cart and a digit in the name.
C5_Witness ==
  /\ ev.op = "checkout" /\ ev.res = "invalid"
  /\ cart # <<>> /\ customer.name = <<"J", "4">> /\ customer.phone = Phone5551234
  /\ \A p \in DOMAIN co : co[p].pc = "idle"

\* ---------------------------------------------------------------- C6
\* C6: when the order POST fails (rejected fetch or res.ok false) the catch block
\* runs: the alert is raised, the call ends without a PUT and without a reload,
\* and cart, customer and lessons are what they were; checkout() itself did not
\* change them either, so an untouched form and cart can be submitted again.
C6_PostFailure ==
  [][/\ \A p \in DOMAIN co, outcome \in {"status", "error"} :
          PostReturn(p, outcome) =>
            /\ ev'.alert = "order"
            /\ co'[p] = IdleCo
            /\ co[p].puts = <<>>
            /\ load' = load
            /\ cart' = cart /\ customer' = customer /\ lessons' = lessons
            /\ orderMessage' = orderMessage
            /\ (cart = co[p].order.items /\ customer.name = co[p].order.name
                  /\ customer.phone = co[p].order.phone)
                 => (NameOK(customer'.name) /\ PhoneOK(customer'.phone) /\ Len(cart') > 0)
     /\ Checkout => (cart' = cart /\ customer' = customer /\ lessons' = lessons)]_vars

\* The POST came back with a failure status; the order can be submitted again.
C6_Witness ==
  /\ ev.op = "postReturn" /\ ev.res = "status" /\ ev.alert = "order"
  /\ co[ev.proc] = IdleCo
  /\ IsCheckoutValid

\* ---------------------------------------------------------------- C7
\* C7: a PUT that fails, by a rejected fetch or by a response with res.ok false,
\* ends the checkout in its catch block: no further PUT, no confirmation
\* message, cart and customer not cleared.
C7_PutFailure ==
  [][\A p \in DOMAIN co, outcome \in {"status", "error"} :
       PutReturn(p, outcome) =>
         /\ ev'.alert = "order"
         /\ co'[p] = IdleCo
         /\ orderMessage' = orderMessage
         /\ cart' = cart /\ customer' = customer]_vars

\* ---------------------------------------------------------------- C8
\* C8: a checkout call sends a PUT only after its POST returned ok; each PUT is for
\* a cart entry that has a lesson and carries that lesson's spaces as they are
\* when it is sent; and when the loop has ended the PUTs sent are, in order, the
\* entries of the cart that have a lesson (entries without one being passed over),
\* be it the cart that was POSTed or the cart as it is then.
C8_PutPerCartItem ==
  [][\A p \in DOMAIN co :
       /\ (co'[p].pc = "put" /\ co'[p].puts # co[p].puts) =>
            /\ co[p].pc = "post" => PostReturn(p, "ok")
            /\ co'[p].puts = Append(co[p].puts, ev'.item)
            /\ FindLesson(lessons, ev'.item) # 0
            /\ ev'.data = << [subject |-> ev'.item.subject,
                              location |-> ev'.item.location,
                              spaces |-> lessons[FindLesson(lessons, ev'.item)].spaces] >>
       /\ (co[p].pc \in {"post", "put"} /\ co'[p].pc = "reload") =>
            \/ co[p].puts = Matching(co[p].order.items)
            \/ co[p].puts = Matching(cart)]_vars

\* ---------------------------------------------------------------- C9
\* C9: when the POST has returned ok and no cart entry is left to send a PUT for,
\* the checkout sets the confirmation, empties the cart and the form and starts
\* a lesson reload; a reload that fails raises the reload's own alert, ends the
\* call outside its catch block and leaves message, cart and form as they are.
C9_SuccessThenReload ==
  [][\A p \in DOMAIN co :
       /\ \A outcome \in FetchOutcomes :
            ((PostReturn(p, outcome) \/ PutReturn(p, outcome)) /\ co'[p].pc = "reload") =>
              /\ orderMessage' = "Order submitted!"
              /\ cart' = <<>>
              /\ customer' = [name |-> <<>>, phone |-> <<>>]
              /\ load[p] = "none" /\ load'[p] = "fetch"
       /\ (PostReturn(p, "ok") /\ \A n \in 1..Len(cart) : FindLesson(lessons, cart[n]) = 0)
            => co'[p].pc = "reload"
       /\ (PutReturn(p, "ok") /\ co[p].k >= Len(IterArr(p))) => co'[p].pc = "reload"
       /\ (\/ LoadFetchReturn(p, "status") \/ LoadFetchReturn(p, "error") \/ LoadJsonFail(p)) =>
              /\ ev'.alert = "load"
              /\ co'[p] = IdleCo
              /\ orderMessage' = orderMessage
              /\ cart' = cart /\ customer' = customer]_vars

\* The reload of a submitted order failed: cart and form still empty, the
\* confirmation still shown, the alert the reload's.
C9_Witness ==
  /\ ev.op = "loadFetchReturn" /\ ev.res = "error" /\ ev.proc \in DOMAIN co
  /\ ev.alert = "load"
  /\ orderMessage = "Order submitted!"
  /\ cart = <<>> /\ customer = EmptyCustomer
  /\ co[ev.proc] = IdleCo

\* ---------------------------------------------------------------- C10
\* A step that changes at most the spaces of the lessons.
C10_OnlySpacesChange ==
  /\ Len(lessons') = Len(lessons)
  /\ \A n \in 1..Len(lessons) : lessons'[n] = [lessons[n] EXCEPT !.spaces = lessons'[n].spaces]

\* C10: loadLessons puts the list the backend answered in place of the catalog,
\* and only once the GET returned ok and its body was read; a rejected fetch, a
\* response with res.ok false or an unreadable body leaves lessons, cart and
\* customer as they are, raises the alert and ends the call with no further GET.
C10_LoadLessons ==
  [][/\ \A w \in Loaders :
          /\ \A data \in Catalogs :
               LoadJsonReturn(w, data) => (lessons' = data /\ load[w] = "json" /\ ev'.res = "ok")
          /\ LoadFetchReturn(w, "ok") => (lessons' = lessons /\ load'[w] = "json")
          /\ (\/ LoadFetchReturn(w, "status") \/ LoadFetchReturn(w, "error") \/ LoadJsonFail(w)) =>
               /\ lessons' = lessons /\ cart' = cart /\ customer' = customer
               /\ ev'.alert = "load"
               /\ load' = [load EXCEPT ![w] = "none"]
     /\ (\E w \in Loaders, data \in Catalogs : LoadJsonReturn(w, data)) \/ C10_OnlySpacesChange]_vars

\* A reload answered with a failure status while a catalog and a cart are in
\* place: both kept, the alert raised, no GET left in flight.
C10_Witness ==
  /\ ev.op = "loadFetchReturn" /\ ev.res = "status" /\ ev.alert = "load"
  /\ lessons # <<>> /\ cart # <<>>
  /\ \A w \in DOMAIN load : load[w] = "none"

\* ---------------------------------------------------------------- C11
\* The prices held by the first n entries of c, added up entry by entry.
RECURSIVE C11_Sum(_, _)
C11_Sum(c, n) == IF n = 0 THEN 0 ELSE C11_Sum(c, n - 1) + c[n].price

\* C11: cartCount is the number of cart entries and cartTotal the sum of the prices
\* the entries hold; an addToCart that adds raises cartTotal by the lesson's price
\* at that moment, a removeOne that removes lowers it by the price held by the
\* entry it removed, and a step that changes only the catalog leaves both.
C11_CartTotals ==
  /\ [](CartCount = Cardinality(DOMAIN cart) /\ CartTotal = C11_Sum(cart, Len(cart)))
  /\ [][/\ \A i \in 1..Len(lessons) :
             (AddToCart(i) /\ cart' # cart) =>
               (CartTotal' = CartTotal + lessons[i].price /\ CartCount' = CartCount + 1)
        /\ \A index \in 0..(Len(cart) - 1), item \in CartItems \cup {Absent} :
             RemoveOne(index, item) =>
               (CartTotal' = CartTotal - cart[index + 1].price /\ CartCount' = CartCount - 1)
        /\ cart' = cart => (CartTotal' = CartTotal /\ CartCount' = CartCount)]_vars

\* A seat in the cart whose lesson the catalog no longer lists: its price still counts.
C11_Witness ==
  /\ cart = <<Snapshot(Lesson("Art", 1))>>
  /\ lessons # <<>> /\ FindLesson(lessons, cart[1]) = 0
  /\ CartTotal = 10 /\ CartCount = 1

\* ---------------------------------------------------------------- C12
\* b is a permutation of a that keeps the order of the entries with equal sort keys.
C12_StablePermutation(a, b, attr) ==
  /\ Len(a) = Len(b)
  /\ \E f \in [1..Len(a) -> 1..Len(a)] :
       /\ \A m, n \in 1..Len(a) : f[m] = f[n] => m = n
       /\ \A n \in 1..Len(a) : b[n] = a[f[n]]
       /\ \A m, n \in 1..Len(a) :
            (m < n /\ SortValue(b[m], attr) = SortValue(b[n], attr)) => f[m] < f[n]

\* C12: for every sort attribute, sortedLessons with direction asc is a permutation
\* of searchedLessons, non-decreasing by the sort key (lowercased text, or the
\* number), with lessons of equal keys in their order of searchedLessons; with
\* direction desc it is that list read backwards.
C12_SortedLessons ==
  \A attr \in SortAttributes :
    LET asc == Sorted(searchedLessons, attr, "asc")
        desc == Sorted(searchedLessons, attr, "desc")
    IN /\ C12_StablePermutation(searchedLessons, asc, attr)
       /\ \A n \in 1..(Len(asc) - 1) :
            ~Greater(SortValue(asc[n], attr), SortValue(asc[n + 1], attr), attr)
       /\ Len(desc) = Len(asc)
       /\ \A n \in 1..Len(asc) : desc[n] = asc[Len(asc) + 1 - n]

\* Prices 10, 30, 20 in the catalog, no search term, sorted by price, descending:
\* the page shows 30, 20, 10.
C12_Witness ==
  /\ searchQuery = <<>> /\ sortAttribute = "price" /\ sortDir = "desc"
  /\ Len(lessons) = 3
  /\ [n \in 1..3 |-> lessons[n].price] = <<10, 30, 20>>
  /\ [n \in 1..3 |-> displayedLessons[n].price] = <<30, 20, 10>>

\* ---------------------------------------------------------------- C13
\* The text of a lesson's four fields as they are displayed, lowercased.
C13_Texts(lesson) ==
  { ToLowerCase(Spelling[lesson.subject]), ToLowerCase(Spelling[lesson.location]),
    NumText(lesson.price), NumText(lesson.spaces) }

\* C13: for every search term, searchedLessons holds, in catalog order, exactly the
\* lessons one of whose four field texts contains the term without regard to
\* case, a price or spaces of 0 being the text "0"; with the empty term it is the
\* catalog.
C13_SearchedLessons ==
  \A q \in Queries :
    /\ Searched(lessons, q) =
         SelectSeq(lessons, LAMBDA lesson :
                     \E text \in C13_Texts(lesson) : Includes(text, ToLowerCase(q)))
    /\ q = <<>> => Searched(lessons, q) = lessons

C15_InFlight(p) ==
  (IF co[p].pc \in {"post", "put"} THEN 1 ELSE 0) + (IF load[p] # "none" THEN 1 ELSE 0)

\* C15: a checkout call has at most one request in flight; its POST is sent by the
\* checkout() call itself, each PUT in the step in which the response to its
\* previous request arrives, and the reload GET in the step in which the response
\* to its last request arrives, the loop being at its end.
C15_Sequential ==
  /\ [](\A p \in DOMAIN co : C15_InFlight(p) <= 1)
  /\ [][\A p \in DOMAIN co :
          /\ (co[p].pc # "post" /\ co'[p].pc = "post") =>
               (Checkout /\ co[p].pc = "idle" /\ co'[p].puts = <<>> /\ load[p] = "none")
          /\ (co'[p].pc = "put" /\ co'[p].puts # co[p].puts) =>
               /\ \E outcome \in FetchOutcomes : PostReturn(p, outcome) \/ PutReturn(p, outcome)
               /\ Len(co'[p].puts) = Len(co[p].puts) + 1
          /\ (load[p] = "none" /\ load'[p] # "none") =>
               /\ \E outcome \in FetchOutcomes : PostReturn(p, outcome) \/ PutReturn(p, outcome)
               /\ co'[p].pc = "reload"
               /\ NextMatch(IF co[p].pc = "post" THEN cart ELSE IterArr(p), co[p].k) = 0]_vars

\* Two PUTs were sent one after the other and answered; the reload GET is the
\* only request of the call that is in flight.
C15_Witness ==
  \E p \in DOMAIN co :
    /\ co[p].pc = "reload" /\ Len(co[p].puts) = 2
    /\ load[p] = "fetch"
    /\ C15_InFlight(p) = 1

\* ---------------------------------------------------------------- C16
\* The cart entries with the (subject, location) of lesson.
C16_Seats(lesson) ==
  Cardinality({ n \in 1..Len(cart) : /\ cart[n].subject = lesson.subject
                                     /\ cart[n].location = lesson.location })

\* C16: with (subject, location) unique in the catalog, the spaces of each lesson
\* plus the number of its seats in the cart is the availability of that lesson in
\* the list loaded last.
C16_SeatConservation ==
  (UniqueKeys(lessons) /\ Len(loaded) = Len(lessons)) =>
    \A i \in 1..Len(lessons) :
      lessons[i].spaces + C16_Seats(lessons[i]) = loaded[i].spaces

\* ---------------------------------------------------------------- C17
\* C17: the cart a checkout call empties is the list of items it POSTed, and the
\* total it POSTed is the sum of the prices in that cart.
C17_ClearedCartWasSubmitted ==
  [][\A p \in DOMAIN co :
       (co[p].pc \in {"post", "put"} /\ co'[p].pc = "reload" /\ cart' = <<>>) =>
         /\ \A n \in 1..Len(cart) : \E m \in 1..Len(co[p].order.items) :
              cart[n] = co[p].order.items[m]
         /\ cart = co[p].order.items
         /\ co[p].order.total = C11_Sum(cart, Len(cart))]_vars

\* ---------------------------------------------------------------- C18
\* C18: checkout() called with a valid form and cart starts a call and POSTs the
\* cart also while another call is suspended at its POST, at a PUT or at its
\* reload; the other call is left as it is.
C18_NoInFlightGuard ==
  [][(Checkout /\ IsCheckoutValid) =>
       \E p \in DOMAIN co :
         /\ co[p].pc = "idle" /\ co'[p].pc = "post"
         /\ co'[p].order.items = cart
         /\ \A q \in DOMAIN co \ {p} : co'[q] = co[q]]_vars

\* Two calls have POSTed the same items and each has sent a PUT for the same lesson.
C18_Witness ==
  /\ co[1].pc = "put" /\ co[2].pc = "put"
  /\ co[1].order.items = co[2].order.items /\ co[1].order.items # <<>>
  /\ co[1].puts # <<>> /\ co[2].puts # <<>>
  /\ co[1].puts[1].subject = co[2].puts[1].subject
  /\ co[1].puts[1].location = co[2].puts[1].location

\* ---------------------------------------------------------------- C19
\* C19: with every request answered in the end, a checkout call that has sent
\* its POST reaches step 3 (success, then its reload) or its catch block
\* (failure), and not both; a call sends its POST once, a POST or PUT that fails
\* ends the call with no request of its own left or started, and a call record
\* is taken into use by a checkout() call only.
C19_TerminatesNoRetry ==
  /\ \A p \in Procs : (co[p].pc \in {"post", "put"}) ~> (co[p].pc \in {"reload", "idle"})
  /\ [][\A p \in DOMAIN co :
          /\ co'[p].pc = "post" => (co[p].pc = "post" \/ (co[p].pc = "idle" /\ Checkout))
          /\ \A outcome \in {"status", "error"} :
               PostReturn(p, outcome) =>
                 (co'[p] = IdleCo /\ load' = load /\ orderMessage' = orderMessage)
          /\ PutReturn(p, "error") =>
               (co'[p] = IdleCo /\ load' = load /\ orderMessage' = orderMessage)
          /\ (co[p].pc = "idle" /\ co'[p].pc # "idle") => Checkout
          /\ co[p].pc = "reload" => (co'[p].pc \in {"reload", "idle"} /\ ev'.alert # "order")
          /\ (co[p].pc \in {"post", "put"} /\ co'[p].pc = "idle") => ev'.alert = "order"]_vars

\* A call failed at its POST: the alert is up, no request is in flight anywhere and
\* the form and cart are as submitted.
C19_Witness ==
  /\ ev.op = "postReturn" /\ ev.res = "error" /\ ev.alert = "order"
  /\ \A p \in DOMAIN co : co[p].pc = "idle"
  /\ \A w \in DOMAIN load : load[w] = "none"
  /\ IsCheckoutValid
====
